---- MODULE Spec2Model ----
(***************************************************************************)
(* Model of the variant annotation scripts annotateVariants.py and         *)
(* script.py: the Variant constructor with its read-support ratio, the two *)
(* POST helpers vepPOSTRequest and exacPOSTRequest, and the batching loop  *)
(* of main().                                                              *)
(*                                                                         *)
(* Numbers.  Python's int / int is the IEEE double nearest the quotient,   *)
(* and "{:.3f}" / "{:.4}" print the decimal nearest that double.  A double *)
(* q = fl(v / n) is kept here as the exact fraction v / n together with    *)
(* the sign of fl(v / n) - v / n (DoubleErr): the decimal Python prints    *)
(* differs from the one nearest v / n only when v / n lies exactly half    *)
(* way between two decimals, and there the sign decides.  (The double is   *)
(* within 2^-53 of v / n, and a fraction with denominator n that is not a  *)
(* half-way point is at least 1 / (2 * 10^4 * n) away from one, so this is *)
(* exact for every n below 2^35.)                                          *)
(***************************************************************************)
EXTENDS Integers, Sequences, FiniteSets, TLC

\* ---------------------------------------------------------------- bounds

\* main(): the input file has at most MaxLines non-blank lines, of which at
\* most MaxComments are '#' lines.
MaxLines == 202
MaxComments == 2
\* Variant(): read counts of the INFO field.
MaxAO == 6
MaxRO == 80
MaxAlleles == 2
\* exacPOSTRequest alone: length of the list handed in.
MaxBatch == 2

\* ------------------------------------------------------- program constants

\* len(variantList) == 200
BatchSize == 200
\* chr, pos, ..., va5 = vcfLine.split('\t')
NumFields == 11

\* ---------------------------------------------------------------- state

VARIABLES
    prog,          \* which script runs: "annotateVariants" or "script"
    pc,            \* position of the run
    numLines,      \* main: numLines
    lineCount,     \* main: lineCount
    numRecords,    \* history: non-comment lines read so far
    variantList,   \* main: variantList (the list handed to the POST helpers)
    output,        \* rows written to the output file after the header
    fClosed,       \* f.close() has run
    outputClosed,  \* output.close() has run
    exitStatus,    \* exit status of the process, -1 while it runs
    raised,        \* the exception that ended the run, "" if none
    jsonResult,    \* last body received from VEP (a sequence of entries)
    result,        \* last body received from ExAC (key -> entry)
    nonSuccess,    \* history: the service that answered with a non-success status
    effectDone,    \* history: highest pos whose batch VEP answered with success
    freqDone,      \* history: highest pos whose batch ExAC answered with success
    vepCalls,      \* history: number of calls of vepPOSTRequest
    exacCalls,     \* history: number of calls of exacPOSTRequest
    flushes,       \* history: number of batches written
    line,          \* Variant(): the line being parsed
    newVariant     \* Variant(): the object under construction

vars == <<prog, pc, numLines, lineCount, numRecords, variantList, output,
          fClosed, outputClosed, exitStatus, raised, jsonResult, result,
          nonSuccess, effectDone, freqDone, vepCalls, exacCalls, flushes,
          line, newVariant>>

\* ------------------------------------------------------ doubles and text

DigitChars == <<"0", "1", "2", "3", "4", "5", "6", "7", "8", "9">>

Digit(d) == DigitChars[d + 1]

RECURSIVE Pow10(_)
Pow10(k) == IF k = 0 THEN 1 ELSE 10 * Pow10(k - 1)

RECURSIVE NumDigits(_)
NumDigits(m) == IF m < 10 THEN 1 ELSE 1 + NumDigits(m \div 10)

\* str(m) for a natural number m
RECURSIVE IntStr(_)
IntStr(m) == IF m < 10 THEN Digit(m) ELSE IntStr(m \div 10) \o Digit(m % 10)

\* number of doublings that bring v / n into [1, 2), for 0 < v <= n
RECURSIVE Shift(_, _)
Shift(v, n) == IF v >= n THEN 0 ELSE 1 + Shift(2 * v, n)

\* (x * 2^k) mod m, ten doublings at a time (m is at most 2 * 10^6, so the
\* product stays below 2^31)
RECURSIVE DoubleMod(_, _, _)
DoubleMod(x, k, m) ==
    IF k = 0 THEN x % m
    ELSE IF k >= 10 THEN DoubleMod((1024 * x) % m, k - 10, m)
    ELSE DoubleMod((2 * x) % m, k - 1, m)

\* Sign of fl(v / n) - v / n for 0 <= v <= n, n > 0, fl rounding to the
\* nearest double (53-bit significand, ties to even): the significand is
\* v * 2^k / n rounded to an integer, k chosen so that it lies in
\* [2^52, 2^53).
DoubleErr(v, n) ==
    IF v = 0 THEN 0
    ELSE LET k == 52 + Shift(v, n)
             r2 == DoubleMod(v, k, 2 * n)
             rem == r2 % n
             odd == r2 >= n
         IN  IF rem = 0 THEN 0
             ELSE IF 2 * rem < n THEN -1
             ELSE IF 2 * rem > n THEN 1
             ELSE IF odd THEN 1 ELSE -1

\* The integer nearest a / b as decimal formatting of the double picks it:
\* err is the sign of (double - exact value); an exact tie goes to even.
RoundDiv(a, b, err) ==
    LET q == a \div b
        t == a % b
    IN  IF 2 * t < b THEN q
        ELSE IF 2 * t > b THEN q + 1
        ELSE IF err > 0 THEN q + 1
        ELSE IF err < 0 THEN q
        ELSE IF q % 2 = 0 THEN q ELSE q + 1

\* "{:.3f}".format(x) for x = m / 1000, 0 <= m < 10000
Fmt3(m) ==
    Digit(m \div 1000) \o "." \o Digit((m \div 100) % 10)
        \o Digit((m \div 10) % 10) \o Digit(m % 10)

\* str.join
RECURSIVE Join(_, _)
Join(strs, sep) ==
    IF Len(strs) = 0 THEN ""
    ELSE IF Len(strs) = 1 THEN strs[1]
    ELSE strs[1] \o sep \o Join(Tail(strs), sep)

\* decimal digits of m, zero-padded on the left to width w ("" for w = 0)
RECURSIVE Pad(_, _)
Pad(m, w) == IF w = 0 THEN "" ELSE Pad(m \div 10, w - 1) \o Digit(m % 10)

RECURSIVE Zeros(_)
Zeros(k) == IF k = 0 THEN "" ELSE "0" \o Zeros(k - 1)

RECURSIVE StripZeros(_)
StripZeros(m) == IF m % 10 = 0 THEN StripZeros(m \div 10) ELSE m

\* allele_freq values are counted in millionths: 12300 stands for 0.0123
Million == Pow10(6)

\* "{:.4}".format(x) for the double x nearest m / 10^6, 0 <= m <= 10^6: four
\* significant digits, trailing zeros dropped, fixed notation while the
\* decimal exponent is at least -4 and exponent notation below.
Fmt4(m) ==
    IF m = 0 THEN "0.0"
    ELSE LET d == NumDigits(m)
             s0 == IF d <= 4 THEN m
                   ELSE RoundDiv(m, Pow10(d - 4), DoubleErr(m, Million))
             carry == d > 4 /\ s0 = 10000
             e == (d - 7) + (IF carry THEN 1 ELSE 0)
             mant == StripZeros(s0)
             len == NumDigits(mant)
         IN  IF e = 0 THEN "1.0"
             ELSE IF e >= -4 THEN "0." \o Zeros(-e - 1) \o IntStr(mant)
             ELSE Digit(mant \div Pow10(len - 1))
                    \o (IF len = 1 THEN ""
                        ELSE "." \o Pad(mant % Pow10(len - 1), len - 1))
                    \o "e-0" \o Digit(-e)

\* ---------------------------------------------------------- class Variant

\* A line of the input is kept as the record of what split('\t') and the
\* INFO parse find in it: the number of tab-separated fields, the fields
\* chr, pos, ref, alt, and the INFO values AO (the comma-separated entries,
\* in order, one entry when there is no comma) and RO.  pos is text in the
\* program; it is kept as the number it spells and printed by IntStr.
\* The fields id, qual, type, depth and varTotalReads are copied from the
\* line to the row and read by nothing else; they are left out.

\* varPercent and refPercent as "{:.3f}" prints them, in thousandths
varPercent(val, refTotalReads) ==
    RoundDiv(1000 * val, val + refTotalReads,
             DoubleErr(val, val + refTotalReads))

refPercentOfVar(val, refTotalReads) ==
    RoundDiv(1000 * val, val + refTotalReads,
             DoubleErr(val, val + refTotalReads))

refPercent(val, refTotalReads) ==
    RoundDiv(1000 * refTotalReads, val + refTotalReads,
             DoubleErr(refTotalReads, val + refTotalReads))

\* "{:.3f}:{:.3f}".format(varPercent, refPercent)
RatioStr(val, refTotalReads) ==
    Fmt3(varPercent(val, refTotalReads)) \o ":"
        \o Fmt3(refPercent(val, refTotalReads))

\* the list ratios after the loop over varTotalReads.split(',')
ratiosFirstOnly(varTotalReads, refTotalReads) ==
    [i \in 1..Len(varTotalReads) |-> RatioStr(varTotalReads[1], refTotalReads)]

ratios(varTotalReads, refTotalReads) ==
    [i \in 1..Len(varTotalReads) |-> RatioStr(varTotalReads[i], refTotalReads)]

\* Variant.getPercentageVarVsRef: the division raises ZeroDivisionError at
\* the first entry with val + refTotalReads = 0.
getPercentageVarVsRef(varTotalReads, refTotalReads) ==
    IF \E i \in 1..Len(varTotalReads) : varTotalReads[i] + refTotalReads = 0
    THEN [raised |-> "ZeroDivisionError", percentRatio |-> ""]
    ELSE IF Len(varTotalReads) > 1
    THEN [raised |-> "",
          percentRatio |-> Join(ratios(varTotalReads, refTotalReads), ",")]
    ELSE [raised |-> "",
          percentRatio |-> RatioStr(varTotalReads[1], refTotalReads)]

NoVariant ==
    [chr |-> "", pos |-> 0, ref |-> "", alt |-> "", percentRatio |-> "",
     effect |-> "", alleleFreq |-> ""]

\* Variant.__init__: the unpacking of split('\t') raises ValueError unless
\* there are exactly 11 fields.
Variant(vcfLine) ==
    IF vcfLine.fields # NumFields
    THEN [raised |-> "ValueError", obj |-> NoVariant]
    ELSE LET r == getPercentageVarVsRef(vcfLine.AO, vcfLine.RO)
         IN  IF r.raised # ""
             THEN [raised |-> r.raised, obj |-> NoVariant]
             ELSE [raised |-> "",
                   obj |-> [chr |-> vcfLine.chr, pos |-> vcfLine.pos,
                            ref |-> vcfLine.ref, alt |-> vcfLine.alt,
                            percentRatio |-> r.percentRatio,
                            effect |-> "", alleleFreq |-> ""]]

\* Variant.exacFormat
exacFormat(var) ==
    Join(<<var.chr, IntStr(var.pos), var.ref, var.alt>>, "-")

\* Variant.updateEffect
updateEffect(var, effect) == [var EXCEPT !.effect = effect]

\* Variant.updateAlleleFreq
updateAlleleFreqAsEffect(var, af) == [var EXCEPT !.effect = af]

updateAlleleFreq(var, af) == [var EXCEPT !.alleleFreq = af]

\* Variant.printVariant: the row written.  script.py writes no alleleFreq
\* column; the row then carries "" there.
printVariant(var, script) ==
    [pos |-> var.pos, effect |-> var.effect,
     percentRatio |-> var.percentRatio,
     alleleFreq |-> IF script = "script" THEN "" ELSE var.alleleFreq]

\* ------------------------------------------------------- the POST helpers

\* The service's answer is an input: ok is myRequest.ok, body what .json()
\* returns.  A helper yields the exception it ends with ("" when it
\* returns) and the list as its in-place updates leave it.

\* vepPOSTRequest: raise_for_status() raises HTTPError when ok is false;
\* jsonResult[i] raises IndexError at the first i past the end of the body,
\* after the entries before it have been applied.
vepPOSTRequest(variantInput, ok, body) ==
    IF ~ok
    THEN [raised |-> "HTTPError", variantInput |-> variantInput]
    ELSE [raised |-> IF Len(body) < Len(variantInput) THEN "IndexError" ELSE "",
          variantInput |->
              [i \in 1..Len(variantInput) |->
                  IF i <= Len(body)
                  THEN updateEffect(variantInput[i],
                                    body[i].most_severe_consequence)
                  ELSE variantInput[i]]]

\* An allele_freq value of the body: a JSON number (in millionths), a JSON
\* string or null.  float() takes a number, and a string that spells one.
FloatTexts == {"0.5"}

FloatOfText(text) == 500000

FloatAccepts(val) ==
    \/ val.kind = "number"
    \/ val.kind = "string" /\ val.text \in FloatTexts

float(val) == IF val.kind = "number" THEN val.micro ELSE FloatOfText(val.text)

\* the try / except of exacPOSTRequest: any exception of the lookup or of
\* float() gives "."
varAF(body, varExacFormat) ==
    IF /\ varExacFormat \in DOMAIN body
       /\ "variant" \in DOMAIN body[varExacFormat]
       /\ "allele_freq" \in DOMAIN body[varExacFormat].variant
       /\ FloatAccepts(body[varExacFormat].variant.allele_freq)
    THEN Fmt4(float(body[varExacFormat].variant.allele_freq))
    ELSE "."

\* exacPOSTRequest: sys.exit() when ok is false.
exacPOSTRequestFirstKey(variantInput, ok, body) ==
    IF ~ok
    THEN [raised |-> "SystemExit", variantInput |-> variantInput]
    ELSE [raised |-> "",
          variantInput |->
              [i \in 1..Len(variantInput) |->
                  updateAlleleFreq(variantInput[i],
                                   varAF(body, exacFormat(variantInput[1])))]]

exacPOSTRequest(variantInput, ok, body) ==
    IF ~ok
    THEN [raised |-> "SystemExit", variantInput |-> variantInput]
    ELSE [raised |-> "",
          variantInput |->
              [i \in 1..Len(variantInput) |->
                  updateAlleleFreq(variantInput[i],
                                   varAF(body, exacFormat(variantInput[i])))]]

\* ------------------------------------------------------------------ inputs

Progs == {"annotateVariants", "script"}

NoLine == [fields |-> 0, chr |-> "", pos |-> 0, ref |-> "", alt |-> "",
           AO |-> <<0>>, RO |-> 0]

\* The n-th non-comment line of the file main() reads: a well-formed record
\* (AO=10;RO=40), a record with AO=0;RO=0, or a line that does not split
\* into 11 fields.
RecordLines(n) ==
    {[fields |-> nf, chr |-> "1", pos |-> n, ref |-> "A", alt |-> "T",
      AO |-> <<reads[1]>>, RO |-> reads[2]] :
        nf \in {NumFields}, reads \in {<<10, 40>>, <<0, 0>>}}
    \cup {[fields |-> NumFields - 2, chr |-> "1", pos |-> n,
           ref |-> "A", alt |-> "T", AO |-> <<10>>, RO |-> 40]}

\* the line "\n": one field
BlankLine(n) ==
    [fields |-> 1, chr |-> "", pos |-> n, ref |-> "", alt |-> "",
     AO |-> <<0>>, RO |-> 0]

Effects == <<"missense_variant", "intron_variant">>

\* Bodies VEP may answer a batch of k variants with: one entry short, k
\* entries or one entry too many, the effects alternating from either one.
VepBody(len, phase) ==
    [i \in 1..len |->
        [most_severe_consequence |-> Effects[((i + phase) % 2) + 1]]]

VepBodies(k) ==
    {VepBody(len, phase) : len \in {k - 1, k, k + 1}, phase \in 0..1}

FreqValue(kind, micro, text) == [kind |-> kind, micro |-> micro, text |-> text]

NumEntry(micro) == [variant |-> [allele_freq |-> FreqValue("number", micro, "")]]

\* Bodies ExAC may answer main()'s batch with: an entry for every key, for
\* every key but the first variant's, or for none.
ExacBodies(variantInput) ==
    LET keys == {exacFormat(variantInput[i]) : i \in 1..Len(variantInput)}
    IN  {[k \in keys |-> NumEntry(12300)],
         [k \in keys \ {exacFormat(variantInput[1])} |-> NumEntry(123456)],
         [k \in {} |-> NumEntry(0)]}

\* -------------------------------------------------------------- main()

\* len(variantList) == 200 or lineCount == numLines
FlushDueAtEndOnly(len, count, total) == count = total

FlushDue(len, count, total) == len = BatchSize \/ count = total

\* for var in variantList: var.printVariant(output)
BatchRowsReversed(list, script) ==
    [i \in 1..Len(list) |-> printVariant(list[Len(list) + 1 - i], script)]

BatchRows(list, script) ==
    [i \in 1..Len(list) |-> printVariant(list[i], script)]

\* After open(), the header row, the count of the lines other than "\n" and
\* f.seek(0).
Init ==
    /\ prog \in Progs
    /\ pc = "loop"
    /\ numLines \in 0..MaxLines
    /\ lineCount = 0
    /\ numRecords = 0
    /\ variantList = <<>>
    /\ output = <<>>
    /\ fClosed = FALSE
    /\ outputClosed = FALSE
    /\ exitStatus = -1
    /\ raised = ""
    /\ jsonResult = <<>>
    /\ result = <<>>
    /\ nonSuccess = ""
    /\ effectDone = 0
    /\ freqDone = 0
    /\ vepCalls = 0
    /\ exacCalls = 0
    /\ flushes = 0
    /\ line = NoLine
    /\ newVariant = NoVariant

\* An exception nothing catches, or sys.exit(): the process ends with the
\* files as they are.  Its memory goes with it: the locals of main() (and
\* the count of the lines it had read) are back at their empty values.
Terminate(exception, status) ==
    /\ pc' = "terminated"
    /\ raised' = exception
    /\ exitStatus' = status
    /\ variantList' = <<>>
    /\ numLines' = 0
    /\ lineCount' = 0
    /\ numRecords' = 0

\* if line.startswith("#"): lineCount += 1; continue
ReadComment ==
    /\ pc = "loop"
    /\ lineCount < numLines
    /\ lineCount - numRecords < MaxComments
    /\ lineCount' = lineCount + 1
    /\ UNCHANGED <<prog, pc, numLines, numRecords, variantList, output,
                   fClosed, outputClosed, exitStatus, raised, jsonResult,
                   result, nonSuccess, effectDone, freqDone, vepCalls,
                   exacCalls, flushes, line, newVariant>>

\* The else branch up to the test of the flush condition.
ParseLine(vcfLine) ==
    LET v == Variant(vcfLine)
    IN  /\ IF v.raised # ""
           THEN Terminate(v.raised, 1)
           ELSE /\ lineCount' = lineCount + 1
                /\ numRecords' = numRecords + 1
                /\ variantList' = Append(variantList, v.obj)
                /\ pc' = IF FlushDue(Len(variantList) + 1, lineCount + 1,
                                     numLines)
                         THEN "vep" ELSE "loop"
                /\ UNCHANGED <<numLines, raised, exitStatus>>
        /\ UNCHANGED <<prog, output, fClosed, outputClosed,
                       jsonResult, result, nonSuccess, effectDone, freqDone,
                       vepCalls, exacCalls, flushes, line, newVariant>>

\* a line that counts in numLines and does not start with "#"
ReadRecord ==
    /\ pc = "loop"
    /\ lineCount < numLines
    /\ \E vcfLine \in RecordLines(numRecords + 1) : ParseLine(vcfLine)

\* a line "\n": it is not counted in numLines, and is parsed like a record
ReadBlank ==
    /\ pc = "loop"
    /\ lineCount <= numLines
    /\ ParseLine(BlankLine(numRecords + 1))

\* vepPOSTRequest(variantList)
CallVep ==
    /\ pc = "vep"
    /\ \E ok \in BOOLEAN :
       \E body \in IF ok THEN VepBodies(Len(variantList)) ELSE {<<>>} :
          LET r == vepPOSTRequest(variantList, ok, body)
          IN  /\ vepCalls' = vepCalls + 1
              /\ jsonResult' = IF ok THEN body ELSE jsonResult
              /\ nonSuccess' = IF ok THEN nonSuccess ELSE "vep"
              /\ IF r.raised # ""
                 THEN /\ Terminate(r.raised, 1)
                      /\ UNCHANGED effectDone
                 ELSE /\ pc' = "exac"
                      /\ variantList' = r.variantInput
                      /\ effectDone' = variantList[Len(variantList)].pos
                      /\ UNCHANGED <<numLines, lineCount, numRecords,
                                     raised, exitStatus>>
    /\ UNCHANGED <<prog, output, fClosed, outputClosed, result, freqDone,
                   exacCalls, flushes, line, newVariant>>

\* what main() does once exacPOSTRequest has ended with r
AfterExacIgnoringExit(r) ==
    /\ pc' = "print"
    /\ variantList' = r.variantInput
    /\ UNCHANGED <<numLines, lineCount, numRecords, raised, exitStatus>>

AfterExac(r) ==
    IF r.raised # ""
    THEN Terminate(r.raised, 0)
    ELSE /\ pc' = "print"
         /\ variantList' = r.variantInput
         /\ UNCHANGED <<numLines, lineCount, numRecords, raised, exitStatus>>

\* exacPOSTRequest(variantList), the body drawn from bodies
CallExacWith(bodies) ==
    /\ pc = "exac"
    /\ \E ok \in BOOLEAN :
       \E body \in IF ok THEN bodies ELSE {<<>>} :
          LET r == exacPOSTRequest(variantList, ok, body)
          IN  /\ exacCalls' = exacCalls + 1
              /\ result' = IF ok THEN body ELSE result
              /\ nonSuccess' = IF ok THEN nonSuccess ELSE "exac"
              /\ freqDone' = IF ok THEN variantList[Len(variantList)].pos
                                   ELSE freqDone
              /\ AfterExac(r)
    /\ UNCHANGED <<prog, output, fClosed, outputClosed, jsonResult,
                   effectDone, vepCalls, flushes, line, newVariant>>

CallExac == CallExacWith(ExacBodies(variantList))

\* for var in variantList: var.printVariant(output), then the reset
WriteBatch ==
    /\ pc = "print"
    /\ output' = output \o BatchRows(variantList, prog)
    /\ variantList' = <<>>
    /\ flushes' = flushes + 1
    /\ pc' = "loop"
    /\ UNCHANGED <<prog, numLines, lineCount, numRecords, fClosed,
                   outputClosed, exitStatus, raised, jsonResult, result,
                   nonSuccess, effectDone, freqDone, vepCalls, exacCalls,
                   line, newVariant>>

\* readlines() is exhausted: f.close(), and in annotateVariants.py
\* output.close(); main() returns.
EndOfInput ==
    /\ pc = "loop"
    /\ lineCount = numLines
    /\ fClosed' = TRUE
    /\ outputClosed' = (prog = "annotateVariants")
    /\ pc' = "done"
    /\ exitStatus' = 0
    /\ UNCHANGED <<prog, numLines, lineCount, numRecords, variantList,
                   output, raised, jsonResult, result, nonSuccess,
                   effectDone, freqDone, vepCalls, exacCalls, flushes, line,
                   newVariant>>

Next ==
    \/ ReadComment
    \/ ReadRecord
    \/ ReadBlank
    \/ CallVep
    \/ CallExac
    \/ WriteBatch
    \/ EndOfInput

Spec == Init /\ [][Next]_vars

\* ------------------------------------------------- Variant() on its own

\* Lines with 11 fields whose AO has 1..MaxAlleles entries in 0..MaxAO and
\* whose RO is in 0..MaxRO.
RECURSIVE SeqsOfLen(_, _)
SeqsOfLen(S, n) ==
    IF n = 0 THEN {<<>>}
    ELSE {Append(q, x) : q \in SeqsOfLen(S, n - 1), x \in S}

SeqsUpTo(S, n) == UNION {SeqsOfLen(S, k) : k \in 1..n}

RatioLines ==
    {[fields |-> NumFields, chr |-> "1", pos |-> 1, ref |-> "A", alt |-> "T",
      AO |-> ao, RO |-> ro] :
        ao \in SeqsUpTo(0..MaxAO, MaxAlleles), ro \in 0..MaxRO}

InitRatio ==
    /\ prog = "annotateVariants"
    /\ pc = "construct"
    /\ line \in RatioLines
    /\ newVariant = NoVariant
    /\ numLines = 0
    /\ lineCount = 0
    /\ numRecords = 0
    /\ variantList = <<>>
    /\ output = <<>>
    /\ fClosed = FALSE
    /\ outputClosed = FALSE
    /\ exitStatus = -1
    /\ raised = ""
    /\ jsonResult = <<>>
    /\ result = <<>>
    /\ nonSuccess = ""
    /\ effectDone = 0
    /\ freqDone = 0
    /\ vepCalls = 0
    /\ exacCalls = 0
    /\ flushes = 0

\* newVariant = Variant(line)
ConstructVariant ==
    /\ pc = "construct"
    /\ LET v == Variant(line)
       IN  /\ newVariant' = v.obj
           /\ raised' = v.raised
           /\ pc' = IF v.raised # "" THEN "terminated" ELSE "constructed"
           /\ exitStatus' = IF v.raised # "" THEN 1 ELSE exitStatus
    /\ UNCHANGED <<prog, numLines, lineCount, numRecords, variantList,
                   output, fClosed, outputClosed, jsonResult, result,
                   nonSuccess, effectDone, freqDone, vepCalls, exacCalls,
                   flushes, line>>

NextRatio == ConstructVariant

SpecRatio == InitRatio /\ [][NextRatio]_vars

\* ------------------------------------------- exacPOSTRequest on its own

\* Variants as vepPOSTRequest leaves them; two of them may share a key.
ExacPool ==
    {[chr |-> "1", pos |-> p, ref |-> "A", alt |-> "T",
      percentRatio |-> "0.200:0.800", effect |-> Effects[1],
      alleleFreq |-> ""] : p \in {7, 12}}

\* the keys of the pool and one key no variant has
ExacKeys == {exacFormat(v) : v \in ExacPool} \cup {"2-7-A-T"}

\* What the body may hold under a key: no "variant", a "variant" without
\* "allele_freq", or an allele_freq that is null, a string or a number.
ExacEntries ==
    {[error |-> "not found"], [variant |-> [rsid |-> "."]]}
    \cup {[variant |-> [allele_freq |-> val]] :
            val \in {FreqValue("null", 0, ""), FreqValue("string", 0, "NA"),
                     FreqValue("string", 0, "0.5"),
                     FreqValue("number", 12300, ""),
                     FreqValue("number", 123456, ""),
                     FreqValue("number", 12, "")}}

AllExacBodies ==
    UNION {[keys -> ExacEntries] : keys \in SUBSET ExacKeys}

InitExac ==
    /\ prog = "annotateVariants"
    /\ pc = "exac"
    /\ variantList \in SeqsUpTo(ExacPool, MaxBatch)
    /\ line = NoLine
    /\ newVariant = NoVariant
    /\ numLines = 0
    /\ lineCount = 0
    /\ numRecords = 0
    /\ output = <<>>
    /\ fClosed = FALSE
    /\ outputClosed = FALSE
    /\ exitStatus = -1
    /\ raised = ""
    /\ jsonResult = <<>>
    /\ result = <<>>
    /\ nonSuccess = ""
    /\ effectDone = 0
    /\ freqDone = 0
    /\ vepCalls = 0
    /\ exacCalls = 0
    /\ flushes = 0

ExacRequestAlone == CallExacWith(AllExacBodies)

NextExac == ExacRequestAlone

SpecExac == InitExac /\ [][NextExac]_vars

\* ------------------------------------------------------------------ claims

\* C1: when main() has run to its end, a batch was written once per 200
\* variants read and once more for a non-empty remainder, the rows written
\* are as many as the non-comment lines of the input, and with no record
\* line neither service was called.
C1_FlushPerBatchAndRemainder ==
    pc = "done" =>
        /\ Len(output) = numRecords
        /\ flushes = (numRecords + BatchSize - 1) \div BatchSize
        /\ (numRecords = 0 => vepCalls = 0 /\ exacCalls = 0)

\* C2: once vepPOSTRequest has returned to main(), the body it received
\* has exactly as many entries as the batch has variants, and the i-th
\* variant carries the i-th entry's effect (a body of another length ends
\* the run instead).
C2_ResponseCardinality ==
    pc \in {"exac", "print"} =>
        /\ Len(jsonResult) = Len(variantList)
        /\ \A i \in 1..Len(variantList) :
              /\ i <= Len(jsonResult)
              /\ variantList[i].effect = jsonResult[i].most_severe_consequence

\* C3: once either service has answered with a non-success status, the run
\* has ended, and with a non-zero exit status.
C3_NonSuccessIsFatal ==
    nonSuccess # "" => pc = "terminated" /\ exitStatus # 0

\* C4: every row in the output belongs to a batch for which both
\* vepPOSTRequest and exacPOSTRequest had returned after a success status:
\* no row of a batch either call failed for is ever written.
C4_WriteAfterBothCalls ==
    \A i \in 1..Len(output) :
        output[i].pos <= effectDone /\ output[i].pos <= freqDone

\* the first batch is written, the second one's ExAC call failed
C4_Witness ==
    /\ pc = "terminated"
    /\ nonSuccess = "exac"
    /\ Len(output) = BatchSize

\* C5: the i-th row of the output is the row of the i-th record line of
\* the input: rows are in input order within and across batches, and no
\* variant is written twice.
C5_OutputInInputOrder ==
    \A i \in 1..Len(output) : output[i].pos = i

\* rows of a second batch follow those of a full first one
C5_Witness ==
    /\ pc = "done"
    /\ Len(output) = BatchSize + 1
    /\ flushes = 2

\* an entry under key whose allele_freq float() accepts
HasFrequency(body, key) ==
    /\ key \in DOMAIN body
    /\ "variant" \in DOMAIN body[key]
    /\ "allele_freq" \in DOMAIN body[key].variant
    /\ FloatAccepts(body[key].variant.allele_freq)

C7_ZeroReadsGiveZeroRatio ==
    (/\ pc # "construct"
     /\ line.RO = 0
     /\ \E i \in 1..Len(line.AO) : line.AO[i] = 0) =>
        /\ pc = "constructed"
        /\ raised = ""
        /\ (Len(line.AO) = 1 => newVariant.percentRatio = "0.000:0.000")

\* C8 as stated: for a single AO = v and RO = r with v + r > 0 the two
\* values of the ratio sum to 1.000 within 0.0005 (both are multiples of
\* 0.001, so the sum is 1.000).
C8_RatioSumsToOne ==
    (pc = "constructed" /\ Len(line.AO) = 1) =>
        \E a \in 0..1000 :
            newVariant.percentRatio = Fmt3(a) \o ":" \o Fmt3(1000 - a)

\* C8 as amended: the two values sum to 1.000 within 0.001.
C8_RatioSumsWithinOneThousandth ==
    (pc = "constructed" /\ Len(line.AO) = 1) =>
        \E a \in 0..1000 : \E b \in {999 - a, 1000 - a, 1001 - a} :
            /\ b \in 0..1000
            /\ newVariant.percentRatio = Fmt3(a) \o ":" \o Fmt3(b)

\* AO = 1, RO = 79: 1/80 and 79/80 are both printed rounded up
C8_Witness ==
    /\ pc = "constructed"
    /\ line.AO = <<1>>
    /\ line.RO = 79
    /\ newVariant.percentRatio = "0.013:0.988"

\* C9: for an AO of n > 1 entries the ratio is the n pairs, joined by
\* commas in the order of the entries, that the entries give one by one as
\* a single AO against the same RO; AO = 3,5 and RO = 10 give
\* 0.231:0.769,0.333:0.667.
C9_MultiAllelicRatios ==
    (pc = "constructed" /\ Len(line.AO) > 1) =>
        /\ newVariant.percentRatio =
              Join([i \in 1..Len(line.AO) |->
                       getPercentageVarVsRef(<<line.AO[i]>>,
                                             line.RO).percentRatio], ",")
        /\ (line.AO = <<3, 5>> /\ line.RO = 10 =>
               newVariant.percentRatio = "0.231:0.769,0.333:0.667")

C9_Witness ==
    /\ pc = "constructed"
    /\ line.AO = <<3, 5>>
    /\ line.RO = 10
    /\ newVariant.percentRatio = "0.231:0.769,0.333:0.667"

\* C10: when the run is over, by main() returning or by an exception or
\* sys.exit(), both the input and the output stream have been closed.
C10_StreamsClosedOnEveryExit ==
    pc \in {"done", "terminated"} => fClosed /\ outputClosed

\* Both fields of the variant are as the constructor left them.
Fresh(var) == var.effect = "" /\ var.alleleFreq = ""

\* One step of main() as C11 sees it.  While lines are read the buffer only
\* grows at its end, by a variant with both fields empty, and the variants
\* already in it are untouched.  The VEP call of the batch meets variants
\* with both fields empty and assigns effect and nothing else.  The ExAC call
\* of the batch meets variants with effect set and alleleFreq empty and
\* assigns alleleFreq and nothing else.  The write meets variants with both
\* fields set and appends their rows; no other step writes, and a step that
\* ends the run drops the buffer.
C11_Step ==
    /\ pc = "loop" =>
          /\ output' = output
          /\ \/ variantList' = variantList
             \/ variantList' = <<>>
             \/ /\ Len(variantList') = Len(variantList) + 1
                /\ SubSeq(variantList', 1, Len(variantList)) = variantList
                /\ Fresh(variantList'[Len(variantList')])
    /\ pc = "vep" =>
          /\ output' = output
          /\ \/ pc' = "terminated" /\ variantList' = <<>>
             \/ /\ pc' = "exac"
                /\ Len(variantList') = Len(variantList)
                /\ \A i \in 1..Len(variantList) :
                      /\ Fresh(variantList[i])
                      /\ variantList'[i].effect # ""
                      /\ variantList'[i] =
                            [variantList[i] EXCEPT
                                !.effect = variantList'[i].effect]
    /\ pc = "exac" =>
          /\ output' = output
          /\ \/ pc' = "terminated" /\ variantList' = <<>>
             \/ /\ pc' = "print"
                /\ Len(variantList') = Len(variantList)
                /\ \A i \in 1..Len(variantList) :
                      /\ variantList[i].effect # ""
                      /\ variantList[i].alleleFreq = ""
                      /\ variantList'[i].alleleFreq # ""
                      /\ variantList'[i] =
                            [variantList[i] EXCEPT
                                !.alleleFreq = variantList'[i].alleleFreq]
    /\ pc = "print" =>
          /\ pc' = "loop"
          /\ \A i \in 1..Len(variantList) :
                variantList[i].effect # "" /\ variantList[i].alleleFreq # ""
          /\ output' = output \o
                [i \in 1..Len(variantList) |->
                    [pos |-> variantList[i].pos,
                     effect |-> variantList[i].effect,
                     percentRatio |-> variantList[i].percentRatio,
                     alleleFreq |-> IF prog = "script" THEN ""
                                    ELSE variantList[i].alleleFreq]]

C12_BufferBounded ==
    /\ Len(variantList) <= BatchSize
    /\ pc \in {"vep", "exac", "print"} => Len(variantList) >= 1
    /\ pc = "loop" =>
          /\ Len(variantList) < BatchSize
          /\ Len(variantList) = numRecords - Len(output)
    /\ \A i \in 1..Len(variantList) : variantList[i].pos = Len(output) + i

\* A full batch of 200 has been written, the buffer is empty again and
\* input lines are still to be read.
C12_Witness ==
    /\ pc = "loop"
    /\ flushes = 1
    /\ Len(output) = BatchSize
    /\ variantList = <<>>
    /\ lineCount < numLines

====
